---- MODULE Spec2Model ----
(***************************************************************************)
(* Central Log Downloader (src/app.py): the /download handler, its SFTP    *)
(* helpers and the local temporary storage, as a state machine.            *)
(*                                                                         *)
(* Text that the code inspects character by character (file names, paths,  *)
(* date strings) is a sequence of one-character strings.  Names the code   *)
(* only compares as a whole (project, module, host, user) are strings.     *)
(* Python's None and the empty string are both falsy and are both written  *)
(* as the empty value ("" or <<>>): the code only ever tests them with     *)
(* `not x`, `x or y` and `if x:`.                                          *)
(***************************************************************************)
EXTENDS Integers, Sequences, FiniteSets, TLC

VARIABLES
    config,     \* parse_config(): project -> module -> attributes
    creds,      \* parse_credentials(): project -> host/user/password
    listing,    \* the remote directory: what sftp.listdir returns, in its order
    mtime,      \* the remote directory: st_mtime of each entry
    workload,   \* which requests clients send: "any", "concurrent" or "none"
    now,        \* the last value read from the clock (datetime.utcnow())
    fs,         \* TEMP_DIR: path -> [size, complete] for every file in it
    pc,         \* per request: the position of download_log
    req,        \* per request: request.args
    loc,        \* per request: the local variables of download_log
    sess,       \* per request: the transports created by its two sftp_connect calls
    outcome,    \* per request: the response download_log returned
    body,       \* per request: chunks of the response body not yet transmitted
    trace,      \* per request: the remote and file operations attempted, in order
    probe,      \* the inputs and the result of one sftp_find_latest_log call
    relocate,   \* a second sftp_find_latest_log call on the same directory
    parsed      \* the input and the result of one safe_parse_date call

vars == <<config, creds, listing, mtime, workload, now, fs, pc, req, loc, sess,
          outcome, body, trace, probe, relocate, parsed>>

-----------------------------------------------------------------------------
(* Bounds of the model.                                                    *)

\* Clock readings range over 0..MaxClock.
MaxClock == 1
\* Remote modification times range over 1..MaxMtime.
MaxMtime == 2
\* Directory listings of the locate specification have at most MaxFiles entries.
MaxFiles == 3
\* A response body is transmitted in at most MaxChunks chunks.
MaxChunks == 2

\* src/app.py:19
MAX_ZIP_MB == 20

-----------------------------------------------------------------------------
(* Text.                                                                   *)

DOT_LOG == <<".","l","o","g">>
TEMP_DIR == <<"t","e","m","p","_","d","o","w","n","l","o","a","d","s">>
ZIP_EXT == <<".","z","i","p">>
Digits == <<"0","1","2","3","4","5","6","7","8","9">>

IsDigit(c) == \E i \in 1..10 : Digits[i] = c
DigitVal(c) == (CHOOSE i \in 1..10 : Digits[i] = c) - 1
AllDigits(s) == \A i \in 1..Len(s) : IsDigit(s[i])

RECURSIVE NumVal(_)
NumVal(s) == IF s = <<>> THEN 0
             ELSE NumVal(SubSeq(s, 1, Len(s) - 1)) * 10 + DigitVal(s[Len(s)])

RECURSIVE Str(_)
Str(n) == IF n < 10 THEN <<Digits[n + 1]>>
          ELSE Str(n \div 10) \o <<Digits[(n % 10) + 1]>>

\* "%02d" and "%04d" of strftime
Zfill(n, w) == LET s == Str(n)
               IN IF Len(s) >= w THEN s ELSE [i \in 1..(w - Len(s)) |-> "0"] \o s

\* str.startswith, str.endswith
StartsWith(s, p) == Len(p) <= Len(s) /\ SubSeq(s, 1, Len(p)) = p
EndsWith(s, p) == Len(p) <= Len(s) /\ SubSeq(s, Len(s) - Len(p) + 1, Len(s)) = p

\* The fields of s between occurrences of the character sep.
RECURSIVE Split(_, _)
Split(s, sep) ==
    IF \A i \in 1..Len(s) : s[i] # sep THEN <<s>>
    ELSE LET k == CHOOSE i \in 1..Len(s) :
                      s[i] = sep /\ \A j \in 1..(i - 1) : s[j] # sep
         IN <<SubSeq(s, 1, k - 1)>> \o Split(SubSeq(s, k + 1, Len(s)), sep)

\* os.path.join(a, b) for a relative b
PathJoin(a, b) == IF a = <<>> \/ a[Len(a)] = "/" THEN a \o b ELSE a \o <<"/">> \o b

\* os.path.basename
Basename(p) ==
    IF \A i \in 1..Len(p) : p[i] # "/" THEN p
    ELSE LET k == CHOOSE i \in 1..Len(p) :
                      p[i] = "/" /\ \A j \in (i + 1)..Len(p) : p[j] # "/"
         IN SubSeq(p, k + 1, Len(p))

-----------------------------------------------------------------------------
(* Dates: safe_parse_date, src/app.py:110-122.  A date is a record         *)
(* [year, month, day]; NoDate stands for a parse that raised.              *)

NoDate == [year |-> 0, month |-> 0, day |-> 0]

IsLeap(y) == (y % 4 = 0 /\ y % 100 # 0) \/ y % 400 = 0
DaysInMonth(y, m) ==
    IF m = 2 THEN (IF IsLeap(y) THEN 29 ELSE 28)
    ELSE IF m \in {4, 6, 9, 11} THEN 30 ELSE 31

\* datetime(y, m, d) accepts the triple
ValidDate(y, m, d) ==
    y \in 1..9999 /\ m \in 1..12 /\ d >= 1 /\ d <= DaysInMonth(y, m)

\* The directives of _strptime: %Y is \d\d\d\d, %m is 1[0-2]|0[1-9]|[1-9],
\* %d is 3[0-1]|[1-2]\d|0[1-9]|[1-9]| [1-9].
MatchY(f) == Len(f) = 4 /\ AllDigits(f)
MatchM(f) == Len(f) \in {1, 2} /\ AllDigits(f) /\ NumVal(f) \in 1..12
MatchD(f) ==
    \/ Len(f) \in {1, 2} /\ AllDigits(f) /\ NumVal(f) \in 1..31
    \/ Len(f) = 2 /\ f[1] = " " /\ IsDigit(f[2]) /\ f[2] # "0"
DayVal(f) == IF f[1] = " " THEN DigitVal(f[2]) ELSE NumVal(f)

\* The four formats tried in order: "%Y-%m-%d", "%d-%m-%Y", "%Y/%m/%d", "%d/%m/%Y".
StrictFormats == << [yearFirst |-> TRUE,  sep |-> "-"],
                    [yearFirst |-> FALSE, sep |-> "-"],
                    [yearFirst |-> TRUE,  sep |-> "/"],
                    [yearFirst |-> FALSE, sep |-> "/"] >>

\* datetime.strptime(date_str, fmt).date(), NoDate for ValueError
strptime(s, fmt) ==
    LET f == Split(s, fmt.sep)
    IN IF Len(f) # 3 THEN NoDate
       ELSE LET fy == IF fmt.yearFirst THEN f[1] ELSE f[3]
                fd == IF fmt.yearFirst THEN f[3] ELSE f[1]
            IN IF MatchY(fy) /\ MatchM(f[2]) /\ MatchD(fd)
                  /\ ValidDate(NumVal(fy), NumVal(f[2]), DayVal(fd))
               THEN [year |-> NumVal(fy), month |-> NumVal(f[2]), day |-> DayVal(fd)]
               ELSE NoDate

\* dateutil's parser with its defaults (dayfirst=False, yearfirst=False) on
\* three numeric fields joined by one of - / . with a four-digit year first
\* or last (_ymd.resolve_ymd); NoDate for every other text of DateInputs,
\* on which it raises ParserError.
dateparser_parse(s) ==
    LET seps == {c \in {"-", "/", "."} : Len(Split(s, c)) = 3}
    IN IF Cardinality(seps) # 1 THEN NoDate
       ELSE LET f == Split(s, CHOOSE c \in seps : TRUE)
            IN IF ~(\A i \in 1..3 : f[i] # <<>> /\ AllDigits(f[i]) /\ Len(f[i]) <= 4)
               THEN NoDate
               ELSE IF Len(f[1]) = 4 /\ Len(f[2]) <= 2 /\ Len(f[3]) <= 2
               THEN \* 99-01-01: year, month, day
                    IF ValidDate(NumVal(f[1]), NumVal(f[2]), NumVal(f[3]))
                    THEN [year |-> NumVal(f[1]), month |-> NumVal(f[2]), day |-> NumVal(f[3])]
                    ELSE NoDate
               ELSE IF Len(f[3]) = 4 /\ Len(f[1]) <= 2 /\ Len(f[2]) <= 2
               THEN IF NumVal(f[1]) > 12
                    THEN \* 13-01-01: day, month, year
                         IF ValidDate(NumVal(f[3]), NumVal(f[2]), NumVal(f[1]))
                         THEN [year |-> NumVal(f[3]), month |-> NumVal(f[2]), day |-> NumVal(f[1])]
                         ELSE NoDate
                    ELSE \* 01-13-01: month, day, year
                         IF ValidDate(NumVal(f[3]), NumVal(f[1]), NumVal(f[2]))
                         THEN [year |-> NumVal(f[3]), month |-> NumVal(f[1]), day |-> NumVal(f[2])]
                         ELSE NoDate
               ELSE NoDate

\* safe_parse_date without its loop: the lenient parser alone.
TryFormats_LenientOnly(s, i) == dateparser_parse(s)

\* The loop over the strict formats from index i on, then the lenient parser.
RECURSIVE TryFormats(_, _)
TryFormats(s, i) ==
    IF i > Len(StrictFormats) THEN dateparser_parse(s)
    ELSE IF strptime(s, StrictFormats[i]) # NoDate THEN strptime(s, StrictFormats[i])
    ELSE TryFormats(s, i + 1)

\* safe_parse_date(date_str); NoDate stands for the final raise ValueError.
safe_parse_date(s) == TryFormats(s, 1)

\* d.strftime("%d-%m-%Y")
strftime_dmy(d) == Zfill(d.day, 2) \o <<"-">> \o Zfill(d.month, 2) \o <<"-">> \o Zfill(d.year, 4)

-----------------------------------------------------------------------------
(* sftp_find_latest_log, src/app.py:104-135.                               *)

\* x put into the descending sequence s behind every element whose key is
\* not smaller: list.sort(key=..., reverse=True) is stable.
RECURSIVE InsertDesc(_, _, _)
InsertDesc(x, s, key) ==
    IF s = <<>> THEN <<x>>
    ELSE IF key[s[1]] >= key[x] THEN <<s[1]>> \o InsertDesc(x, Tail(s), key)
    ELSE <<x>> \o s

\* SortByMtimeDesc without the sort: the candidates in listing order.
SortByMtimeDesc_Unsorted(s, key) == s

\* candidates.sort(key=lambda f: sftp.stat(...).st_mtime, reverse=True)
RECURSIVE SortByMtimeDesc(_, _)
SortByMtimeDesc(s, key) ==
    IF s = <<>> THEN <<>>
    ELSE InsertDesc(s[Len(s)], SortByMtimeDesc(SubSeq(s, 1, Len(s) - 1), key), key)

\* The candidate filter of a dated locate: f.startswith(f"{base}-{date_part}.log")
DatedPrefix(base, d) == base \o <<"-">> \o strftime_dmy(d) \o DOT_LOG
DatedCandidates(files, base, d) ==
    LET keep(f) == StartsWith(f, DatedPrefix(base, d)) IN SelectSeq(files, keep)

\* The candidate filter of a dateless locate: f.startswith(base) and f.endswith(".log")
DatelessCandidates(files, base) ==
    LET keep(f) == StartsWith(f, base) /\ EndsWith(f, DOT_LOG) IN SelectSeq(files, keep)

\* NoCandidates without the test of line 131: candidates[0] raises IndexError.
NoCandidates_IndexError == [kind |-> "Exception", path |-> <<>>]

\* What the empty candidate list leads to: return None.
NoCandidates == [kind |-> "None", path |-> <<>>]

\* The lines after the candidates are built: the emptiness test, the sort
\* with one stat per candidate (statOk: every stat answers), the first element.
PickLatest(candidates, mt, statOk, dirpath) ==
    IF candidates = <<>> THEN NoCandidates
    ELSE IF ~statOk THEN [kind |-> "Exception", path |-> <<>>]
    ELSE [kind |-> "path",
          path |-> PathJoin(dirpath, SortByMtimeDesc(candidates, mt)[1])]

\* sftp_find_latest_log after a listdir that answered files.  The result is
\* a path, None, the ValueError of safe_parse_date or the exception of stat.
sftp_find_latest_log(files, mt, statOk, dirpath, base, date_str) ==
    IF files = <<>> THEN [kind |-> "None", path |-> <<>>]
    ELSE IF date_str # <<>>
    THEN IF safe_parse_date(date_str) = NoDate
         THEN [kind |-> "ValueError", path |-> <<>>]
         ELSE PickLatest(DatedCandidates(files, base, safe_parse_date(date_str)),
                         mt, statOk, dirpath)
    ELSE PickLatest(DatelessCandidates(files, base), mt, statOk, dirpath)

-----------------------------------------------------------------------------
(* The inputs of the model: registries, remote directories, requests.      *)

BaseApp == <<"a","p","p">>
DirA == <<"/","l","o","g","s">>
DirB == <<"/","l","o","g","s","/">>
F_0104 == <<"a","p","p","-","0","1","-","0","4","-","2","0","2","4",".","l","o","g">>
F_0204 == <<"a","p","p","-","0","2","-","0","4","-","2","0","2","4",".","l","o","g">>
F_0304 == <<"a","p","p","-","0","3","-","0","4","-","2","0","2","4",".","l","o","g">>
F_0304_1 == <<"a","p","p","-","0","3","-","0","4","-","2","0","2","4",".","l","o","g",".","1">>
F_other == <<"s","y","s",".","l","o","g">>
D_iso == <<"2","0","2","4","-","0","4","-","0","3">>
D_dmy == <<"0","3","-","0","4","-","2","0","2","4">>
D_dots == <<"2","0","2","4",".","0","4",".","0","3">>
D_iso_slash == <<"2","0","2","4","/","0","4","/","0","3">>
D_dmy_slash == <<"0","3","/","0","4","/","2","0","2","4">>
D_bad == <<"n","o","t","-","a","-","d","a","t","e">>

EmptyFn == [x \in {} |-> x]

\* config.xml as parse_config reads it: a module that names its own server
\* and user; one that leaves both to the credentials; one whose server is
\* mistyped; beside the first, a module element without a name.
ModuleOwn == [server |-> "logs1", user |-> "svc", path |-> DirB, base |-> BaseApp]
ModuleBare == [server |-> "", user |-> "", path |-> DirA, base |-> BaseApp]
\* A module whose server attribute is mistyped: a host name with an empty label.
ModuleTypo == [server |-> "logs..1", user |-> "svc", path |-> DirB, base |-> BaseApp]
Registries == { "billing" :> ("api" :> ModuleOwn),
                "billing" :> ("api" :> ModuleBare),
                "billing" :> ("api" :> ModuleTypo),
                "billing" :> (("api" :> ModuleOwn) @@ ("" :> ModuleOwn)) }

\* credentials.xml as parse_credentials reads it: a full entry, an entry
\* without host and user, no entry for the project.
CredentialFiles == { "billing" :> [host |-> "vault", user |-> "ops", password |-> "pw"],
                     "billing" :> [host |-> "", user |-> "", password |-> "pw"],
                     EmptyFn }

\* Remote directories: empty; the three dated logs, the newest not the
\* lexically last; no entry of the base name; two candidates of one date
\* with the same modification time.
Directories ==
    { [files |-> <<>>, mt |-> EmptyFn],
      [files |-> <<F_0104, F_0204, F_0304_1>>,
       mt |-> (F_0104 :> 1) @@ (F_0204 :> 2) @@ (F_0304_1 :> 1)],
      [files |-> <<F_other>>, mt |-> (F_other :> 1)],
      [files |-> <<F_0304_1, F_0304>>, mt |-> (F_0304_1 :> 2) @@ (F_0304 :> 2)] }

\* request.args: project and module ("" when the parameter is missing), date
\* (<<>> when missing or empty).
DateInputs == {<<>>, D_iso, D_dmy, D_dots, D_bad}
AllRequests == [project : {"billing", "ghost", ""}, module : {"api", "web", ""},
                date : DateInputs]

\* The requests sent while two are served at once: one that is served, and
\* one for each way the configuration lines reject a request.
ConcurrentRequests ==
    { [project |-> "billing", module |-> "api", date |-> <<>>],
      [project |-> "billing", module |-> "web", date |-> <<>>],
      [project |-> "ghost", module |-> "api", date |-> <<>>],
      [project |-> "billing", module |-> "", date |-> <<>>] }

ClientRequests(w) ==
    IF w = "any" THEN AllRequests ELSE IF w = "concurrent" THEN ConcurrentRequests ELSE {}

\* The byte sizes a fetched log may have, around MAX_ZIP_MB * 1024 * 1024.
Threshold == MAX_ZIP_MB * 1024 * 1024
Sizes == {0, 5 * 1024 * 1024, Threshold, Threshold + 1, 25 * 1024 * 1024}

-----------------------------------------------------------------------------
(* The responses of download_log, src/app.py:155-241.                      *)

Pending == [code |-> 0, error |-> ""]
ErrArgs == [code |-> 400, error |-> "project and module required"]
ErrProject == [code |-> 404, error |-> "project not found in config or credentials"]
ErrModule == [code |-> 404, error |-> "module not found"]
ErrDate == [code |-> 400, error |-> "Invalid date format"]
ErrRemote == [code |-> 500, error |-> "error accessing remote logs"]
ErrNoLog == [code |-> 404, error |-> "no matching log file found"]
ErrDownload == [code |-> 500, error |-> "failed to download log"]
\* An exception that leaves download_log: Flask answers 500.
ErrUnhandled == [code |-> 500, error |-> "Internal Server Error"]
FileResponse == [code |-> 200, error |-> ""]

\* The kind of result a response stands for.
Kind(resp) ==
    IF resp = Pending THEN "pending"
    ELSE IF resp \in {ErrArgs, ErrProject, ErrModule} THEN "ConfigurationError"
    ELSE IF resp = ErrDate THEN "InvalidDateFormat"
    ELSE IF resp = ErrNoLog THEN "NotFound"
    ELSE IF resp \in {ErrRemote, ErrDownload} THEN "TransportError"
    ELSE IF resp = FileResponse THEN "LocalArtifact"
    ELSE "Unhandled"

-----------------------------------------------------------------------------
(* The state of one request.                                               *)

Requests == DOMAIN pc

NoLocals == [host |-> "", username |-> "", password |-> "", dirpath |-> <<>>,
             base |-> <<>>, bound |-> 0, exc |-> "none", remote_file |-> <<>>,
             local_temp |-> <<>>, to_send |-> <<>>]
NoSessions == [s1 |-> "none", s2 |-> "none"]
NoRequest == [project |-> "", module |-> "", date |-> <<>>]
NoProbe == [files |-> <<>>, mt |-> EmptyFn, date |-> <<>>, statOk |-> TRUE,
            called |-> FALSE, result |-> [kind |-> "None", path |-> <<>>]]
NoRelocate == [files |-> <<>>, called |-> FALSE, result |-> [kind |-> "None", path |-> <<>>]]
NoParsed == [text |-> <<>>, called |-> FALSE, date |-> NoDate]

\* One operation in a request's trace, entered when it returns or raises:
\* what, on which sftp_connect call's session (1 or 2; 0 for a local file
\* operation, and for a close through unbound names), and whether it
\* returned (ok) or raised.
Ev(op, s, ok) == [op |-> op, s |-> s, ok |-> ok]

InitRequests(n) ==
    /\ pc = [r \in 1..n |-> "idle"]
    /\ req = [r \in 1..n |-> NoRequest]
    /\ loc = [r \in 1..n |-> NoLocals]
    /\ sess = [r \in 1..n |-> NoSessions]
    /\ outcome = [r \in 1..n |-> Pending]
    /\ body = [r \in 1..n |-> 0]
    /\ trace = [r \in 1..n |-> <<>>]
    /\ now = 0
    /\ fs = EmptyFn

\* One request, any registry, any directory, any request.
Init ==
    /\ config \in Registries
    /\ creds \in CredentialFiles
    /\ \E d \in Directories : listing = d.files /\ mtime = d.mt
    /\ workload = "any"
    /\ probe = NoProbe
    /\ relocate = NoRelocate
    /\ parsed = NoParsed
    /\ InitRequests(1)

\* return <response>: the handler ends.
Return(r, resp) ==
    /\ outcome' = [outcome EXCEPT ![r] = resp]
    /\ pc' = [pc EXCEPT ![r] = "done"]

Env == <<config, creds, listing, mtime, workload, probe, relocate, parsed>>

-----------------------------------------------------------------------------
(* download_log: request arguments and configuration, src/app.py:156-183.  *)

\* A client sends a request: lines 156-159.
Request(r) ==
    /\ pc[r] = "idle"
    /\ \E q \in ClientRequests(workload) : req' = [req EXCEPT ![r] = q]
    /\ pc' = [pc EXCEPT ![r] = "args"]
    /\ UNCHANGED <<Env, now, fs, loc, sess, outcome, body, trace>>

\* line 161: not project or not module
MissingArgs(q) == q.project = "" \/ q.module = ""

\* line 167: project not in config or project not in creds
ProjectUnknown(q) == q.project \notin DOMAIN config \/ q.project \notin DOMAIN creds

\* line 170: mod_cfg = config[project].get(module), NoModule for None
NoModule == [server |-> "", user |-> "", path |-> <<>>, base |-> <<>>]
ModuleLookup(q) ==
    IF q.module \in DOMAIN config[q.project] THEN config[q.project][q.module] ELSE NoModule

\* ModuleUnknown without the test of line 173.
ModuleUnknown_Unchecked(q) == FALSE

\* line 173: not mod_cfg
ModuleUnknown(q) == ModuleLookup(q) = NoModule

\* x or y
Or(x, y) == IF x # "" THEN x ELSE y

\* ResolveHost without the module-level value.
ResolveHost_CredentialOnly(mod_cfg, cred) == cred.host

\* lines 176-177: the module's own value, else the credential entry's
ResolveHost(mod_cfg, cred) == Or(mod_cfg.server, cred.host)
ResolveUser(mod_cfg, cred) == Or(mod_cfg.user, cred.user)

\* lines 161-162
RejectArgs(r) ==
    /\ pc[r] = "args"
    /\ MissingArgs(req[r])
    /\ Return(r, ErrArgs)
    /\ UNCHANGED <<Env, now, fs, req, loc, sess, body, trace>>

\* lines 164-168
RejectProject(r) ==
    /\ pc[r] = "args"
    /\ ~MissingArgs(req[r])
    /\ ProjectUnknown(req[r])
    /\ Return(r, ErrProject)
    /\ UNCHANGED <<Env, now, fs, req, loc, sess, body, trace>>

\* lines 170-174
RejectModule(r) ==
    /\ pc[r] = "args"
    /\ ~MissingArgs(req[r])
    /\ ~ProjectUnknown(req[r])
    /\ ModuleUnknown(req[r])
    /\ Return(r, ErrModule)
    /\ UNCHANGED <<Env, now, fs, req, loc, sess, body, trace>>

\* lines 176-183: the connection parameters of the request
Resolve(r) ==
    /\ pc[r] = "args"
    /\ ~MissingArgs(req[r])
    /\ ~ProjectUnknown(req[r])
    /\ ~ModuleUnknown(req[r])
    /\ LET mod_cfg == ModuleLookup(req[r])
           cred == creds[req[r].project]
       IN loc' = [loc EXCEPT ![r].host = ResolveHost(mod_cfg, cred),
                             ![r].username = ResolveUser(mod_cfg, cred),
                             ![r].password = cred.password,
                             ![r].dirpath = mod_cfg.path,
                             ![r].base = mod_cfg.base]
    /\ pc' = [pc EXCEPT ![r] = "connect1"]
    /\ UNCHANGED <<Env, now, fs, req, sess, outcome, body, trace>>

-----------------------------------------------------------------------------
(* sftp_connect, src/app.py:91-101, and the two try blocks that call it.   *)

\* How one sftp_connect call can go: it returns (sftp, transport); the host
\* name cannot be encoded (UnicodeError, a ValueError, from the address
\* lookup of line 94); the host cannot be reached (line 94); the transport
\* is up and authentication fails (line 95); the transport is up and the
\* SFTP channel cannot be opened (line 96); the transport is up and the peer
\* never answers the request for the SFTP subsystem (line 96).
ConnectResults == {"ok", "bad_host", "unreachable", "auth_failed", "no_sftp", "no_answer"}

\* A host name the address lookup of line 94 cannot encode.
Malformed(host) == host = "logs..1"

\* How a call with the given host can go.
ConnectOutcomes(host) ==
    IF Malformed(host) THEN {"bad_host"} ELSE ConnectResults \ {"bad_host"}

\* The time sftp_connect lets a call wait for the peer: its timeout
\* parameter (line 91) is passed to nothing in lines 94-96, and
\* SFTPClient.from_transport waits for the peer's answer without a limit.
\* A call that gets no answer stays where it is.
AfterConnect(res, n) ==
    IF res = "ok" THEN (IF n = 1 THEN "locate" ELSE "get")
    ELSE IF res = "no_answer" THEN (IF n = 1 THEN "waiting1" ELSE "waiting2")
    ELSE (IF n = 1 THEN "finally1" ELSE "finally2")

\* The transport the call created, as the call leaves it: the except clause
\* of lines 98-101 logs and re-raises, it closes nothing.
TransportAfter(res) ==
    IF res \in {"ok", "auth_failed", "no_sftp", "no_answer"} THEN "open" ELSE "none"

\* The exception the call raises.
RaisedBy(res) ==
    IF res \in {"ok", "no_answer"} THEN "none"
    ELSE IF res = "bad_host" THEN "ValueError" ELSE "Exception"

SetSession(s, n, v) == IF n = 1 THEN [s EXCEPT !.s1 = v] ELSE [s EXCEPT !.s2 = v]

\* try: sftp.close(); transport.close() / except Exception: pass, lines
\* 196-200 and 218-222.  sftp and transport name the objects of the last
\* sftp_connect call that returned (bound; 0: the names are unbound and
\* sftp.close() raises UnboundLocalError).  closeOk: sftp.close() returns.
CloseSessions(s, bound, closeOk) ==
    IF bound = 0 \/ ~closeOk THEN s ELSE SetSession(s, bound, "closed")

\* A finally block without its inner try: what sftp.close() raises leaves it.
CloseErrorEscapes_Uncaught(bound, closeOk) == bound = 0 \/ ~closeOk

\* except Exception: pass, lines 199-200 and 221-222: what sftp.close()
\* raises, the UnboundLocalError included, is caught inside the finally
\* block; the return or the exception that was under way goes on.
CloseErrorEscapes(bound, closeOk) == FALSE

\* line 186
ConnectLocate(r) ==
    /\ pc[r] = "connect1"
    /\ \E res \in ConnectOutcomes(loc[r].host) :
        /\ sess' = [sess EXCEPT ![r] = SetSession(@, 1, TransportAfter(res))]
        /\ loc' = [loc EXCEPT ![r].bound = IF res = "ok" THEN 1 ELSE @,
                              ![r].exc = RaisedBy(res)]
        /\ pc' = [pc EXCEPT ![r] = AfterConnect(res, 1)]
        /\ trace' = [trace EXCEPT ![r] = IF res = "no_answer" THEN @
                                         ELSE Append(@, Ev("connect", 1, res = "ok"))]
    /\ UNCHANGED <<Env, now, fs, req, outcome, body>>

\* The operations sftp_find_latest_log performed on the session, given its result.
LocateOps(listOk, res) ==
    IF listOk /\ res.kind \in {"path", "Exception"}
    THEN <<Ev("list", 1, TRUE), Ev("stat", 1, res.kind = "path")>>
    ELSE <<Ev("list", 1, listOk)>>

\* line 187: sftp_find_latest_log on the session; listOk: listdir answers.
Locate(r) ==
    /\ pc[r] = "locate"
    /\ \E listOk \in BOOLEAN, statOk \in BOOLEAN :
        LET res == IF listOk
                   THEN sftp_find_latest_log(listing, mtime, statOk, loc[r].dirpath,
                                             loc[r].base, req[r].date)
                   ELSE [kind |-> "Exception", path |-> <<>>]
        IN /\ loc' = [loc EXCEPT ![r].remote_file = res.path,
                                 ![r].exc = IF res.kind \in {"ValueError", "Exception"}
                                            THEN res.kind ELSE "none"]
           /\ trace' = [trace EXCEPT ![r] = @ \o LocateOps(listOk, res)]
    /\ pc' = [pc EXCEPT ![r] = "finally1"]
    /\ UNCHANGED <<Env, now, fs, req, sess, outcome, body>>

\* line 207: f"{datetime.utcnow().timestamp()}_{filename}" under TEMP_DIR
LocalTemp(t, filename) == PathJoin(TEMP_DIR, Str(t) \o <<"_">> \o filename)

\* The response the first try block ends with: lines 188-194 and 202-204.
LocateResponse(l) ==
    IF l.exc = "ValueError" THEN ErrDate
    ELSE IF l.exc = "Exception" THEN ErrRemote
    ELSE IF l.remote_file = <<>> THEN ErrNoLog
    ELSE Pending

\* lines 188-207: the except clauses and the finally block of the first
\* try, then either the response or the local path, named after a clock
\* reading that is not before the last one.
FinallyLocate(r) ==
    /\ pc[r] = "finally1"
    /\ \E closeOk \in BOOLEAN :
        /\ sess' = [sess EXCEPT ![r] = CloseSessions(@, loc[r].bound, closeOk)]
        /\ trace' = [trace EXCEPT ![r] =
                         Append(@, Ev("close", loc[r].bound, loc[r].bound # 0 /\ closeOk))]
        /\ IF CloseErrorEscapes(loc[r].bound, closeOk)
           THEN /\ Return(r, ErrUnhandled)
                /\ UNCHANGED <<now, loc>>
           ELSE IF LocateResponse(loc[r]) # Pending
           THEN /\ Return(r, LocateResponse(loc[r]))
                /\ UNCHANGED <<now, loc>>
           ELSE /\ \E t \in now..MaxClock :
                    /\ now' = t
                    /\ loc' = [loc EXCEPT ![r].local_temp =
                                   LocalTemp(t, Basename(loc[r].remote_file))]
                /\ pc' = [pc EXCEPT ![r] = "connect2"]
                /\ UNCHANGED outcome
    /\ UNCHANGED <<Env, fs, req, body>>

\* line 210
ConnectFetch(r) ==
    /\ pc[r] = "connect2"
    /\ \E res \in ConnectOutcomes(loc[r].host) :
        /\ sess' = [sess EXCEPT ![r] = SetSession(@, 2, TransportAfter(res))]
        /\ loc' = [loc EXCEPT ![r].bound = IF res = "ok" THEN 2 ELSE @,
                              ![r].exc = RaisedBy(res)]
        /\ pc' = [pc EXCEPT ![r] = AfterConnect(res, 2)]
        /\ trace' = [trace EXCEPT ![r] = IF res = "no_answer" THEN @
                                         ELSE Append(@, Ev("connect", 2, res = "ok"))]
    /\ UNCHANGED <<Env, now, fs, req, outcome, body>>

\* A file of TEMP_DIR: the bytes it holds, whether it was written in full,
\* and for a zip archive the name of its one member (<<>> for a plain file).
File(size, complete, member) == [size |-> size, complete |-> complete, member |-> member]

\* fs with path written anew (open(path, "wb") truncates what was there)
WriteFile(f, path, file) == (path :> file) @@ f
\* fs without path
RemoveFile(f, path) == [p \in DOMAIN f \ {path} |-> f[p]]

\* How sftp.get(remote_file, local_temp) can go: the file arrives in full;
\* the local file cannot be opened; the local file is open and the transfer
\* breaks off.
GetResults == {"ok", "open_failed", "interrupted"}

\* line 211: sftp.get leaves what it wrote; a transfer of size bytes that
\* breaks off has written less.
FsAfterGet(f, path, res, size, written) ==
    IF res = "ok" THEN WriteFile(f, path, File(size, TRUE, <<>>))
    ELSE IF res = "interrupted" THEN WriteFile(f, path, File(written, FALSE, <<>>))
    ELSE f

\* lines 211-212
Get(r) ==
    /\ pc[r] = "get"
    /\ \E res \in GetResults, size \in Sizes :
        \E written \in {w \in Sizes : w < size} \cup {0} :
            /\ fs' = FsAfterGet(fs, loc[r].local_temp, res, size, written)
            /\ loc' = [loc EXCEPT ![r].exc = IF res = "ok" THEN "none" ELSE "Exception"]
    /\ trace' = [trace EXCEPT ![r] = Append(@, Ev("get", loc[r].bound, loc'[r].exc = "none"))]
    /\ pc' = [pc EXCEPT ![r] = "finally2"]
    /\ UNCHANGED <<Env, now, req, sess, outcome, body>>

\* The local files the except clause of lines 213-216 leaves: it logs and
\* returns, it removes nothing.
FsAfterFetchError(f, path) == f

\* A handler that goes on to lines 224-241 whatever the second try raised.
FetchFailed_Ignored(l) == FALSE

\* lines 213-216: the except clause runs when sftp_connect or sftp.get raised
FetchFailed(l) == l.exc # "none"

\* lines 213-222: the except clause and the finally block of the second try
FinallyFetch(r) ==
    /\ pc[r] = "finally2"
    /\ \E closeOk \in BOOLEAN :
        /\ sess' = [sess EXCEPT ![r] = CloseSessions(@, loc[r].bound, closeOk)]
        /\ trace' = [trace EXCEPT ![r] =
                         Append(@, Ev("close", loc[r].bound, loc[r].bound # 0 /\ closeOk))]
        /\ IF CloseErrorEscapes(loc[r].bound, closeOk)
           THEN /\ Return(r, ErrUnhandled)
                /\ fs' = FsAfterFetchError(fs, loc[r].local_temp)
           ELSE IF FetchFailed(loc[r])
           THEN /\ Return(r, ErrDownload)
                /\ fs' = FsAfterFetchError(fs, loc[r].local_temp)
           ELSE /\ pc' = [pc EXCEPT ![r] = "archive"]
                /\ UNCHANGED <<outcome, fs>>
    /\ UNCHANGED <<Env, now, req, loc, body>>

-----------------------------------------------------------------------------
(* Archive decision, send and cleanup, src/app.py:224-241.                 *)

\* line 225: shutil.make_archive(local_temp, 'zip', ...) names the archive
ZipPath(local_temp) == local_temp \o ZIP_EXT

\* The comparison of line 224 with the threshold itself counted as too large.
TooLarge_Inclusive(size) == size >= MAX_ZIP_MB * 1024 * 1024

\* line 224: os.path.getsize(local_temp) > MAX_ZIP_MB * 1024 * 1024
TooLarge(size) == size > MAX_ZIP_MB * 1024 * 1024

\* How lines 225-228 can go: the archive is made and the original removed;
\* make_archive raises before it creates the archive; make_archive raises
\* with the archive half written; os.remove raises.
ArchiveResults == {"ok", "zip_failed", "zip_partial", "remove_failed"}

\* The local files after lines 225-228.
FsAfterArchive(f, path, res) ==
    LET zip == File(f[path].size, res # "zip_partial", Basename(path))
    IN IF res = "zip_failed" THEN f
       ELSE IF res \in {"zip_partial", "remove_failed"} THEN WriteFile(f, ZipPath(path), zip)
       ELSE RemoveFile(WriteFile(f, ZipPath(path), zip), path)

\* The file operations of lines 225-228, given how they went.
ArchiveOps(res) ==
    IF res \in {"zip_failed", "zip_partial"} THEN <<Ev("zip", 0, FALSE)>>
    ELSE <<Ev("zip", 0, TRUE), Ev("remove", 0, res = "ok")>>

\* lines 224-231.  Nothing catches an exception here: the request ends with
\* Flask's 500 and the files stay as they are.
Archive(r) ==
    /\ pc[r] = "archive"
    /\ LET path == loc[r].local_temp
       IN IF path \notin DOMAIN fs
          THEN \* getsize raises FileNotFoundError
               /\ Return(r, ErrUnhandled)
               /\ UNCHANGED <<fs, loc, trace>>
          ELSE IF TooLarge(fs[path].size)
          THEN \E res \in ArchiveResults :
                /\ fs' = FsAfterArchive(fs, path, res)
                /\ trace' = [trace EXCEPT ![r] = @ \o ArchiveOps(res)]
                /\ IF res = "ok"
                   THEN /\ loc' = [loc EXCEPT ![r].to_send = ZipPath(path)]
                        /\ pc' = [pc EXCEPT ![r] = "send"]
                        /\ UNCHANGED outcome
                   ELSE /\ Return(r, ErrUnhandled)
                        /\ UNCHANGED loc
          ELSE /\ loc' = [loc EXCEPT ![r].to_send = path]
               /\ pc' = [pc EXCEPT ![r] = "send"]
               /\ UNCHANGED <<fs, outcome, trace>>
    /\ UNCHANGED <<Env, now, req, sess, body>>

\* The chunks in which a response carries a file of the given size.
ChunksOf(size) == IF size = 0 THEN {0} ELSE 1..MaxChunks

\* line 235: send_file(to_send) opens the file and builds the response; its
\* body is read from the open file when the server transmits it, after
\* download_log has returned.  sendOk: send_file returns.
SendFile(r) ==
    /\ pc[r] = "send"
    /\ \E sendOk \in BOOLEAN :
        IF sendOk /\ loc[r].to_send \in DOMAIN fs
        THEN /\ \E n \in ChunksOf(fs[loc[r].to_send].size) : body' = [body EXCEPT ![r] = n]
             /\ UNCHANGED loc
        ELSE /\ loc' = [loc EXCEPT ![r].exc = "Exception"]
             /\ UNCHANGED body
    /\ trace' = [trace EXCEPT ![r] = Append(@, Ev("send", 0, loc'[r].exc = "none"))]
    /\ pc' = [pc EXCEPT ![r] = "cleanup"]
    /\ UNCHANGED <<Env, now, fs, req, sess, outcome>>

\* lines 238-239: if os.path.exists(to_send): os.remove(to_send), inside
\* try / except Exception: pass.  rmOk: os.remove returns.
FsAfterCleanup(f, path, rmOk) ==
    IF path \in DOMAIN f /\ rmOk THEN RemoveFile(f, path) ELSE f

\* lines 236-241: the finally block runs when send_file has returned or
\* raised, before download_log returns the response.
Cleanup(r) ==
    /\ pc[r] = "cleanup"
    /\ \E rmOk \in BOOLEAN :
        /\ fs' = FsAfterCleanup(fs, loc[r].to_send, rmOk)
        /\ trace' = [trace EXCEPT ![r] =
                         IF loc[r].to_send \in DOMAIN fs
                         THEN Append(@, Ev("remove", 0, rmOk)) ELSE @]
    /\ outcome' = [outcome EXCEPT ![r] =
                      IF loc[r].exc # "none" THEN ErrUnhandled ELSE FileResponse]
    /\ pc' = [pc EXCEPT ![r] =
                 IF loc[r].exc # "none" \/ body[r] = 0 THEN "done" ELSE "transmit"]
    /\ UNCHANGED <<Env, now, req, loc, sess, body>>

\* The server transmits one chunk of the response body.
Transmit(r) ==
    /\ pc[r] = "transmit"
    /\ body[r] > 0
    /\ body' = [body EXCEPT ![r] = @ - 1]
    /\ pc' = [pc EXCEPT ![r] = IF body[r] = 1 THEN "done" ELSE "transmit"]
    /\ UNCHANGED <<Env, now, fs, req, loc, sess, outcome, trace>>

-----------------------------------------------------------------------------
(* The specification of the request handler.                               *)

Next ==
    \/ \E r \in Requests : Request(r)
    \/ \E r \in Requests : RejectArgs(r)
    \/ \E r \in Requests : RejectProject(r)
    \/ \E r \in Requests : RejectModule(r)
    \/ \E r \in Requests : Resolve(r)
    \/ \E r \in Requests : ConnectLocate(r)
    \/ \E r \in Requests : Locate(r)
    \/ \E r \in Requests : FinallyLocate(r)
    \/ \E r \in Requests : ConnectFetch(r)
    \/ \E r \in Requests : Get(r)
    \/ \E r \in Requests : FinallyFetch(r)
    \/ \E r \in Requests : Archive(r)
    \/ \E r \in Requests : SendFile(r)
    \/ \E r \in Requests : Cleanup(r)
    \/ \E r \in Requests : Transmit(r)

Spec == Init /\ [][Next]_vars

\* A handler that has begun keeps running: the server's thread takes every
\* step of download_log that can be taken.
Serving == \E r \in Requests : pc[r] # "idle"
SpecFair == Init /\ [][Next]_vars /\ WF_vars(Serving /\ Next)

-----------------------------------------------------------------------------
(* Two requests in flight at once (Flask serves each request on a thread   *)
(* of its own), against one registry and one remote directory.             *)

InitConc ==
    /\ config = ("billing" :> ("api" :> ModuleOwn))
    /\ creds = ("billing" :> [host |-> "vault", user |-> "ops", password |-> "pw"])
    /\ listing = <<F_0104, F_0204, F_0304_1>>
    /\ mtime = (F_0104 :> 1) @@ (F_0204 :> 2) @@ (F_0304_1 :> 1)
    /\ workload = "concurrent"
    /\ probe = NoProbe
    /\ relocate = NoRelocate
    /\ parsed = NoParsed
    /\ InitRequests(2)

SpecConc == InitConc /\ [][Next]_vars

-----------------------------------------------------------------------------
(* sftp_find_latest_log on its own: one call on a listing, modification    *)
(* times and a date drawn from bounded sets.                               *)

FileNames == {F_0104, F_0204, F_0304, F_0304_1, F_other}

\* The listings: up to MaxFiles distinct names, in any order.
Listings ==
    {s \in UNION {[1..n -> FileNames] : n \in 0..MaxFiles} :
        \A i, j \in DOMAIN s : i # j => s[i] # s[j]}

Range(s) == {s[i] : i \in DOMAIN s}

InitLocate ==
    /\ config = ("billing" :> ("api" :> ModuleBare))
    /\ creds = EmptyFn
    /\ listing = <<>>
    /\ mtime = EmptyFn
    /\ workload = "none"
    /\ relocate = NoRelocate
    /\ parsed = NoParsed
    /\ InitRequests(0)
    /\ \E files \in Listings, date \in DateInputs, statOk \in BOOLEAN :
        \E mt \in [Range(files) -> 1..MaxMtime] :
            probe = [files |-> files, mt |-> mt, date |-> date, statOk |-> statOk,
                     called |-> FALSE, result |-> [kind |-> "None", path |-> <<>>]]

\* The call sftp_find_latest_log(sftp, dirpath, base, date_str) on the drawn inputs.
LocateCall ==
    /\ ~probe.called
    /\ probe' = [probe EXCEPT !.called = TRUE,
                              !.result = sftp_find_latest_log(probe.files, probe.mt,
                                             probe.statOk, DirA, BaseApp, probe.date)]
    /\ UNCHANGED <<config, creds, listing, mtime, workload, now, fs, pc, req, loc, sess,
                   outcome, body, trace, relocate, parsed>>

NextLocate == LocateCall

SpecLocate == InitLocate /\ [][NextLocate]_vars

-----------------------------------------------------------------------------
(* sftp_find_latest_log twice on one directory: the entries and their      *)
(* modification times are the same for both calls; sftp.listdir returns    *)
(* the entries in an order of the server's choosing each time.             *)

\* The orders in which a listing of the entries of files may come back.
Orders(files) ==
    {s \in [DOMAIN files -> Range(files)] : Range(s) = Range(files)}

InitRelocate ==
    /\ config = ("billing" :> ("api" :> ModuleBare))
    /\ creds = EmptyFn
    /\ listing = <<>>
    /\ mtime = EmptyFn
    /\ workload = "none"
    /\ parsed = NoParsed
    /\ InitRequests(0)
    /\ \E files \in Listings, date \in DateInputs, statOk \in BOOLEAN :
        \E mt \in [Range(files) -> 1..MaxMtime], again \in Orders(files) :
            /\ probe = [files |-> files, mt |-> mt, date |-> date, statOk |-> statOk,
                        called |-> FALSE, result |-> [kind |-> "None", path |-> <<>>]]
            /\ relocate = [NoRelocate EXCEPT !.files = again]

\* The second call, with the same dirpath, base and date_str as the first.
RelocateCall ==
    /\ probe.called
    /\ ~relocate.called
    /\ relocate' = [relocate EXCEPT !.called = TRUE,
                        !.result = sftp_find_latest_log(relocate.files, probe.mt,
                                       probe.statOk, DirA, BaseApp, probe.date)]
    /\ UNCHANGED <<config, creds, listing, mtime, workload, now, fs, pc, req, loc, sess,
                   outcome, body, trace, probe, parsed>>

NextRelocate ==
    \/ LocateCall
    \/ RelocateCall

SpecRelocate == InitRelocate /\ [][NextRelocate]_vars

-----------------------------------------------------------------------------
(* safe_parse_date on its own: one call on a text drawn from the date      *)
(* strings below.                                                          *)

\* Day, month and year fields as a client may write them: padded or not, a
\* day no month has, a day only some months have, a month that does not exist.
DayFields == {<<"0","3">>, <<"3">>, <<"1","3">>, <<"3","0">>, <<"3","1">>}
MonthFields == {<<"0","4">>, <<"4">>, <<"0","2">>, <<"1","3">>}
YearField == <<"2","0","2","4">>
Separators == {"-", "/", "."}

\* The date strings: year first and year last with each separator, and a
\* text that is no date.
DateTexts ==
    {YearField \o <<c>> \o m \o <<c>> \o d : c \in Separators, m \in MonthFields, d \in DayFields}
    \cup {d \o <<c>> \o m \o <<c>> \o YearField : c \in Separators, m \in MonthFields, d \in DayFields}
    \cup {D_bad}

InitDate ==
    /\ config = ("billing" :> ("api" :> ModuleBare))
    /\ creds = EmptyFn
    /\ listing = <<>>
    /\ mtime = EmptyFn
    /\ workload = "none"
    /\ probe = NoProbe
    /\ relocate = NoRelocate
    /\ InitRequests(0)
    /\ \E text \in DateTexts : parsed = [NoParsed EXCEPT !.text = text]

\* The call safe_parse_date(date_str) of line 125 on the drawn text.
ParseCall ==
    /\ ~parsed.called
    /\ parsed' = [parsed EXCEPT !.called = TRUE, !.date = safe_parse_date(parsed.text)]
    /\ UNCHANGED <<config, creds, listing, mtime, workload, now, fs, pc, req, loc, sess,
                   outcome, body, trace, probe, relocate>>

NextDate == ParseCall

SpecDate == InitDate /\ [][NextDate]_vars

-----------------------------------------------------------------------------
(* Properties.                                                             *)

\* download_log has returned a response for request r.
Returned(r) == outcome[r] # Pending
\* Request r is past the configuration lines (156-183).
PastArgs(r) == pc[r] \notin {"idle", "args"}
\* Request r has attempted operation op.
Did(r, op) == \E i \in DOMAIN trace[r] : trace[r][i].op = op
\* Request r has attempted operation op on the session of connect call n.
DidOn(r, op, n) == \E i \in DOMAIN trace[r] : trace[r][i].op = op /\ trace[r][i].s = n
\* An operation op of request r returned / raised.
DidOk(r, op) == \E i \in DOMAIN trace[r] : trace[r][i].op = op /\ trace[r][i].ok
Raised(r, op) == \E i \in DOMAIN trace[r] : trace[r][i].op = op /\ ~trace[r][i].ok
\* The date string of request r is given and no parser accepts it.
BadDate(r) == req[r].date # <<>> /\ safe_parse_date(req[r].date) = NoDate

\* C1: when a download request has returned, on whichever exit path, no
\* transport that one of its sftp_connect calls opened is still open.
C1_TransportsClosedOnReturn ==
    \A r \in Requests :
        Returned(r) => sess[r].s1 # "open" /\ sess[r].s2 # "open"

\* C2: when the fetch step has failed after a successful locate and the
\* error has been returned, no file exists at the request's local
\* temporary path.
C2_NoPartialFileAfterFetchError ==
    \A r \in Requests :
        outcome[r] = ErrDownload => loc[r].local_temp \notin DOMAIN fs

\* C3: a request whose date string is unparseable performs no connect and no
\* listing, and the response it returns is the invalid-date one, whatever
\* the state of the remote side.
C3_InvalidDateBeforeAnySession ==
    \A r \in Requests :
        PastArgs(r) /\ Kind(outcome[r]) # "ConfigurationError" /\ BadDate(r)
            => /\ ~Did(r, "connect") /\ ~Did(r, "list")
               /\ Returned(r) => Kind(outcome[r]) = "InvalidDateFormat"

\* C4: once the fetch has written the local temporary file, a request that
\* has finished and none of whose os.remove calls raised has left neither
\* the plain temporary file nor the zip archive in temporary storage.
C4_TempFilesGoneWhenFinished ==
    \A r \in Requests :
        pc[r] = "done" /\ DidOk(r, "get") /\ ~Raised(r, "remove")
            => /\ loc[r].local_temp \notin DOMAIN fs
               /\ ZipPath(loc[r].local_temp) \notin DOMAIN fs

\* C5: while the response of a request still has body chunks to transmit,
\* the file it sends has not been deleted.
C5_ArtifactKeptWhileTransmitting ==
    \A r \in Requests :
        pc[r] = "transmit" /\ body[r] > 0 => loc[r].to_send \in DOMAIN fs

\* Request r is being served and has chosen its local temporary path.
HoldsPath(r) == pc[r] \notin {"idle", "done"} /\ loc[r].local_temp # <<>>
\* The paths request r writes, sends or deletes.
PathsOf(r) == {loc[r].local_temp, ZipPath(loc[r].local_temp)}

\* C6: two requests in flight at the same time have different local
\* temporary paths and different archive paths.
C6_ConcurrentPathsDistinct ==
    \A r1, r2 \in Requests :
        r1 # r2 /\ HoldsPath(r1) /\ HoldsPath(r2) => PathsOf(r1) \cap PathsOf(r2) = {}

\* The pair (project, module) of request r is present in the registry.
InRegistry(r) ==
    req[r].project \in DOMAIN config /\ req[r].module \in DOMAIN config[req[r].project]

\* C7 as stated: for every pair present in the registry, resolution succeeds
\* and yields a non-empty host and a non-empty user.
C7_RegisteredPairResolves ==
    \A r \in Requests :
        PastArgs(r) /\ InRegistry(r)
            => /\ Kind(outcome[r]) # "ConfigurationError"
               /\ loc[r].host # "" /\ loc[r].username # ""

\* The project and the module of request r are named, the project has a
\* credential entry, and the module entry or the credential entry gives a
\* host, and one of them gives a user.
HasHostAndUser(r) ==
    /\ req[r].project # "" /\ req[r].module # ""
    /\ req[r].project \in DOMAIN creds
    /\ LET m == config[req[r].project][req[r].module]
           c == creds[req[r].project]
       IN (m.server # "" \/ c.host # "") /\ (m.user # "" \/ c.user # "")

\* C7, amended: for every pair of non-empty names present in the registry
\* whose project has a credential entry and for which the module or the
\* credential entry gives a host and a user, resolution succeeds and yields
\* a non-empty host and a non-empty user.
C7_RegisteredPairWithCredentialsResolves ==
    \A r \in Requests :
        PastArgs(r) /\ InRegistry(r) /\ HasHostAndUser(r)
            => /\ Kind(outcome[r]) # "ConfigurationError"
               /\ loc[r].host # "" /\ loc[r].username # ""

\* C7, witness: a module without server and user resolved through the
\* credential entry.
C7_Witness ==
    \E r \in Requests :
        /\ pc[r] = "connect1" /\ InRegistry(r) /\ HasHostAndUser(r)
        /\ config[req[r].project][req[r].module].server = ""
        /\ loc[r].host = "vault" /\ loc[r].username = "ops"

\* C8: a request whose project is absent from the registry, or whose module
\* is absent under the project, ends with the configuration error; it
\* attempts no remote operation, opens no transport and creates no file.
C8_AbsentPairIsConfigurationError ==
    \A r \in Requests :
        PastArgs(r) /\ ~InRegistry(r)
            => /\ pc[r] = "done"
               /\ Kind(outcome[r]) = "ConfigurationError"
               /\ trace[r] = <<>>
               /\ sess[r] = NoSessions
               /\ loc[r].local_temp = <<>> /\ fs = EmptyFn

\* C8, witness: the module is absent under a project that is registered and
\* has credentials, and the request has been answered.
C8_Witness ==
    \E r \in Requests :
        /\ pc[r] = "done" /\ outcome[r] = ErrModule
        /\ req[r].project \in DOMAIN config /\ req[r].project \in DOMAIN creds
        /\ req[r].module \notin DOMAIN config[req[r].project]

\* The 3 April 2024 prefix "app-03-04-2024.log" and the date strings that
\* name that day, each in another format.
Prefix_0304 == <<"a","p","p","-","0","3","-","0","4","-","2","0","2","4",".","l","o","g">>
Dates_0304 == {D_iso, D_dmy, D_dots}

\* The candidates of the probed locate, as C9 describes them.
C9_Candidates ==
    IF probe.date = <<>>
    THEN {f \in Range(probe.files) : StartsWith(f, BaseApp) /\ EndsWith(f, DOT_LOG)}
    ELSE {f \in Range(probe.files) : StartsWith(f, Prefix_0304)}

\* C9: a locate whose stats answer returns a candidate of greatest
\* modification time, where the candidates of a dateless locate are the
\* entries that start with the base and end with ".log" and those of a
\* locate dated 3 April 2024, in whichever format, the entries that start
\* with "app-03-04-2024.log".
C9_LocateReturnsLatestCandidate ==
    probe.called /\ probe.statOk /\ probe.date \in {<<>>} \cup Dates_0304
        => IF C9_Candidates = {} THEN probe.result.kind = "None"
           ELSE /\ probe.result.kind = "path"
                /\ \E f \in C9_Candidates :
                    /\ probe.result.path = PathJoin(DirA, f)
                    /\ \A g \in C9_Candidates : probe.mt[f] >= probe.mt[g]

\* C9, witness: the rotated log of 3 April 2024 is listed last and is the
\* newest of two candidates, the date is given as YYYY-MM-DD.
C9_Witness ==
    /\ probe.called /\ probe.statOk /\ probe.date = D_iso
    /\ probe.files = <<F_0104, F_0304, F_0304_1>>
    /\ probe.mt[F_0304] < probe.mt[F_0304_1]
    /\ probe.result = [kind |-> "path", path |-> PathJoin(DirA, F_0304_1)]

\* No entry of the listing passes the candidate filter of request r.
NoEntryMatches(r) ==
    IF req[r].date = <<>>
    THEN \A i \in DOMAIN listing :
            ~(StartsWith(listing[i], loc[r].base) /\ EndsWith(listing[i], DOT_LOG))
    ELSE /\ req[r].date \in Dates_0304
         /\ \A i \in DOMAIN listing : ~StartsWith(listing[i], Prefix_0304)

\* C10: when the listing answered and is empty, or no entry of it matches
\* the candidate filter, the locate gives no file and raises nothing; the
\* request ends with the not-found response, opens no second session and
\* creates no local file.
C10_NoCandidateIsNotFound ==
    \A r \in Requests :
        DidOk(r, "list") /\ (listing = <<>> \/ NoEntryMatches(r))
            => /\ loc[r].exc = "none" /\ loc[r].remote_file = <<>>
               /\ Returned(r) => outcome[r] = ErrNoLog
               /\ pc[r] \in {"finally1", "done"}
               /\ ~DidOn(r, "connect", 2) /\ ~Did(r, "get")
               /\ loc[r].local_temp = <<>> /\ fs = EmptyFn

\* C10, witness: a directory with entries, none of them a candidate, and the
\* request has ended with the not-found response.
C10_Witness ==
    \E r \in Requests :
        /\ pc[r] = "done" /\ outcome[r] = ErrNoLog
        /\ listing # <<>> /\ NoEntryMatches(r)

\* C11: two locate calls with the same base, directory and date against an
\* unchanged remote directory return the same result, whatever order the
\* listing comes back in and also when candidates share the greatest
\* modification time.
C11_LocateIsIdempotent ==
    probe.called /\ relocate.called => relocate.result = probe.result

\* C12: when the response is about to be sent, a fetched log of more than
\* 20 MiB has been replaced by a complete zip archive whose one member is the
\* log under its own name, and the log itself is gone; a log of at most
\* 20 MiB is sent as the fetched file itself, and no archive exists.
C12_ArchiveDecision ==
    \A r \in Requests :
        pc[r] = "send"
            => LET fetched == loc[r].local_temp
                   artifact == loc[r].to_send
               IN /\ artifact \in DOMAIN fs
                  /\ IF fs[artifact].size > 20 * 1024 * 1024
                     THEN /\ artifact = ZipPath(fetched)
                          /\ fs[artifact].member = Basename(fetched)
                          /\ fs[artifact].complete
                          /\ fetched \notin DOMAIN fs
                     ELSE /\ artifact = fetched
                          /\ fs[artifact].member = <<>>
                          /\ ZipPath(fetched) \notin DOMAIN fs

\* A log one byte over the threshold is about to be sent as an archive.
C12_Witness ==
    \E r \in Requests :
        /\ pc[r] = "send"
        /\ loc[r].to_send = ZipPath(loc[r].local_temp)
        /\ loc[r].to_send \in DOMAIN fs
        /\ fs[loc[r].to_send].size = Threshold + 1

\* 3 April 2024
April3 == [year |-> 2024, month |-> 4, day |-> 3]

\* C13: safe_parse_date returns what the first of the strict formats
\* %Y-%m-%d, %d-%m-%Y, %Y/%m/%d, %d/%m/%Y that accepts the text yields, so
\* "2024-04-03", "03-04-2024", "2024/04/03" and "03/04/2024" all give
\* 3 April 2024; "not-a-date", which neither a strict format nor the lenient
\* parser accepts, is refused.
C13_StrictFormatsInOrder ==
    parsed.called
        => /\ parsed.text \in {D_iso, D_dmy, D_iso_slash, D_dmy_slash} => parsed.date = April3
           /\ parsed.text = D_bad => parsed.date = NoDate
           /\ \A i \in DOMAIN StrictFormats :
                  /\ strptime(parsed.text, StrictFormats[i]) # NoDate
                  /\ \A j \in 1..(i - 1) : strptime(parsed.text, StrictFormats[j]) = NoDate
                  => parsed.date = strptime(parsed.text, StrictFormats[i])

\* "03-04-2024" was parsed, day first, as 3 April 2024.
C13_Witness ==
    parsed.called /\ parsed.text = D_dmy /\ parsed.date = April3

\* C14: whenever send_file has been called for a request, the request's
\* second sftp_connect and its sftp.get have both returned; after a connect
\* or a get that raised, no send_file call follows.
C14_SendOnlyAfterCompleteFetch ==
    \A r \in Requests :
        Did(r, "send")
            => /\ DidOk(r, "get") /\ ~Raised(r, "get")
               /\ \E i \in DOMAIN trace[r] : trace[r][i] = Ev("connect", 2, TRUE)
               /\ \A i \in DOMAIN trace[r] : trace[r][i] # Ev("connect", 2, FALSE)

\* A request has fetched its log in full and called send_file.
C14_Witness ==
    \E r \in Requests : DidOk(r, "send") /\ DidOk(r, "get")

\* C15: a session does one thing.  The listing and the stat calls of a
\* request go to the session of its first sftp_connect call and sftp.get to
\* the session of its second; when the second sftp_connect is about to be
\* called, the transport of the first is no longer open.
C15_OneOperationPerSession ==
    \A r \in Requests :
        /\ \A i \in DOMAIN trace[r] :
               /\ trace[r][i].op \in {"list", "stat"} => trace[r][i].s = 1
               /\ trace[r][i].op = "get" => trace[r][i].s = 2
        /\ pc[r] = "connect2" => sess[r].s1 # "open"

\* C16: a request for which neither the module entry nor the credential
\* entry gives a host, or neither gives a user, is answered with the
\* configuration error and attempts no connect.
C16_EmptyHostOrUserIsRejected ==
    \A r \in Requests :
        PastArgs(r) /\ (loc[r].host = "" \/ loc[r].username = "")
            => Kind(outcome[r]) = "ConfigurationError" /\ ~Did(r, "connect")

\* The operations that go to the remote host.
RemoteOps == {"connect", "list", "stat", "get"}
\* How often request r has attempted operation op on the session of call n.
Attempts(r, op, n) ==
    Cardinality({i \in DOMAIN trace[r] : trace[r][i].op = op /\ trace[r][i].s = n})
\* A remote operation of request r raised.
TransportFailed(r) ==
    \E i \in DOMAIN trace[r] : trace[r][i].op \in RemoteOps /\ ~trace[r][i].ok

\* The part of C17 about retries: each of the first connect, the listing,
\* the second connect and the get is attempted at most once, and no remote
\* operation follows one that raised.
NoRetries ==
    \A r \in Requests :
        /\ Attempts(r, "connect", 1) <= 1 /\ Attempts(r, "list", 1) <= 1
        /\ Attempts(r, "connect", 2) <= 1 /\ Attempts(r, "get", 2) <= 1
        /\ \A i, j \in DOMAIN trace[r] :
               i < j /\ trace[r][i].op \in RemoteOps /\ ~trace[r][i].ok
                   => trace[r][j].op \notin RemoteOps

\* C17: nothing is retried.  Each of the first connect, the listing, the
\* second connect and the get is attempted at most once; no remote
\* operation follows one that raised; and a request one of whose remote
\* operations raised returns the transport error.
C17_NoRetries ==
    /\ NoRetries
    /\ \A r \in Requests :
           Returned(r) /\ TransportFailed(r) => Kind(outcome[r]) = "TransportError"

\* The first sftp_connect, the listing or a stat call of request r raised.
LocateStageFailed(r) ==
    \E i \in DOMAIN trace[r] :
        trace[r][i].op \in {"connect", "list", "stat"} /\ trace[r][i].s = 1 /\ ~trace[r][i].ok

\* C20: the invalid-date response is returned only to a request whose date
\* string is given and accepted by no parser; a request whose first
\* connect, listing or stat raised is answered with the transport error,
\* whatever the kind of the exception; a request without a date is never
\* answered with the invalid-date response.
C20_InvalidDateOnlyForBadDate ==
    \A r \in Requests :
        /\ Kind(outcome[r]) = "InvalidDateFormat" => BadDate(r)
        /\ Returned(r) /\ LocateStageFailed(r) => Kind(outcome[r]) = "TransportError"
        /\ req[r].date = <<>> => Kind(outcome[r]) # "InvalidDateFormat"

\* A local file operation of request r raised.
LocalOpFailed(r) == Raised(r, "zip") \/ Raised(r, "remove") \/ Raised(r, "send")

\* C18: what sftp.close() raises changes no response.  A request returns the
\* transport error only when one of its remote operations raised, the
\* invalid-date response only when its date was refused or its connect
\* raised, an unhandled error only when a local file operation raised; a
\* request none of whose operations but close raised returns the file, or
\* the not-found response when there is nothing to fetch.
C18_CloseFailureChangesNoOutcome ==
    \A r \in Requests :
        Returned(r) /\ Did(r, "close")
            => /\ Kind(outcome[r]) = "TransportError" => TransportFailed(r)
               /\ Kind(outcome[r]) = "InvalidDateFormat" => BadDate(r) \/ TransportFailed(r)
               /\ Kind(outcome[r]) = "Unhandled" => LocalOpFailed(r)
               /\ ~TransportFailed(r) /\ ~LocalOpFailed(r) /\ ~BadDate(r)
                      => Kind(outcome[r]) \in {"LocalArtifact", "NotFound"}

\* Both sessions of a request were connected, sftp.close() raised on each,
\* and the request returned the file.
C18_Witness ==
    \E r \in Requests :
        /\ outcome[r] = FileResponse
        /\ \E i \in DOMAIN trace[r] : trace[r][i] = Ev("close", 1, FALSE)
        /\ \E i \in DOMAIN trace[r] : trace[r][i] = Ev("close", 2, FALSE)

\* Request 1 is inside an sftp_connect call whose peer does not answer.
ConnectWaiting == pc[1] \in {"waiting1", "waiting2"}

\* C19: an sftp_connect call that gets no answer from the host ends, and the
\* request returns a response.
C19_ConnectWaitIsBounded == ConnectWaiting ~> Returned(1)

====
